---- MODULE Spec2Model ----
(***************************************************************************)
(* Model of the Orderbook class of src/src/orderbook.py.                   *)
(*                                                                         *)
(* A store (bids, asks) is a SortedDict from price to a deque of Orders.   *)
(* It is modelled as a function whose DOMAIN is the set of price keys      *)
(* present and whose values are sequences of Order records; a key whose    *)
(* deque is empty is a key mapped to << >>.  The iteration order of a      *)
(* SortedDict is the order of its key function: -x for bids, x for asks.   *)
(*                                                                         *)
(* Each public method is one action.  A call ends in one of                *)
(*   "accepted" / "rejected"   submit_limit_order returned                 *)
(*   "filled"  / "rejected"    submit_market_order returned                *)
(*   "raised"                  the call raised (StopIteration)             *)
(*   "hung"                    the call never returns                      *)
(* and the record last describes the latest call.                          *)
(***************************************************************************)
EXTENDS Integers, Sequences, FiniteSets

\* ------------------------------------------------------------------ bounds
MaxPrice == 3
MaxVol == 2
MaxNeg == 1
MaxOps == 3
MaxDeepOps == 4

Prices == 1..MaxPrice
Volumes == (0 - MaxNeg)..MaxVol
DeepVolumes == 1..MaxVol

VARIABLES
  bids,          \* SortedDict(lambda x: -x): price -> deque of Order
  asks,          \* SortedDict(): price -> deque of Order
  long_volume,   \* self._long_volume
  short_volume,  \* self._short_volume
  next_id,       \* number of Orders created so far (order_id is a fresh uuid)
  last,          \* the latest call: its arguments, its outcome and its deals
  sum_limit,     \* sum of the volumes of the accepted limit orders
  sum_deals,     \* sum of the volumes of the deals created
  nops,          \* number of calls made
  positive_only  \* every volume passed to a call so far was > 0

vars == <<bids, asks, long_volume, short_volume, next_id, last, sum_limit, sum_deals, nops,
          positive_only>>

\* ------------------------------------------------------------ pure helpers
Min(a, b) == IF a < b THEN a ELSE b

RECURSIVE SumVolumes(_)
SumVolumes(ords) ==
  IF ords = << >> THEN 0 ELSE Head(ords).volume + SumVolumes(Tail(ords))

RECURSIVE SumOver(_, _)
SumOver(store, keys) ==
  IF keys = {} THEN 0
  ELSE LET p == CHOOSE q \in keys : TRUE
       IN SumVolumes(store[p]) + SumOver(store, keys \ {p})

RECURSIVE CountOver(_, _)
CountOver(store, keys) ==
  IF keys = {} THEN 0
  ELSE LET p == CHOOSE q \in keys : TRUE
       IN Len(store[p]) + CountOver(store, keys \ {p})

RECURSIVE SumDealVolumes(_)
SumDealVolumes(ds) ==
  IF ds = << >> THEN 0 ELSE Head(ds).volume + SumDealVolumes(Tail(ds))

\* The empty SortedDict.
EmptyStore == [p \in {} |-> << >>]

\* ------------------------------------------------------------- the queries
bids_key(x) == 0 - x

asks_key(x) == x

\* next(iter(self.bids)): the first key in the order of bids_key.
get_max_bid_price(b) ==
  CHOOSE p \in DOMAIN b : \A q \in DOMAIN b : bids_key(p) <= bids_key(q)

\* next(iter(self.asks)): the first key in the order of asks_key.
get_min_ask_price(a) ==
  CHOOSE p \in DOMAIN a : \A q \in DOMAIN a : asks_key(p) <= asks_key(q)

get_long_num_ords(a) == CountOver(a, DOMAIN a)

get_short_num_ords(b) == CountOver(b, DOMAIN b)

get_total_long_volume(a) == SumOver(a, DOMAIN a)

get_total_short_volume(b) == SumOver(b, DOMAIN b)

\* The no-cross assertion of validate().
validate_no_cross(b, a) ==
  (Cardinality(DOMAIN a) > 0 /\ Cardinality(DOMAIN b) > 0) =>
    get_min_ask_price(a) > get_max_bid_price(b)

\* ------------------------------------------------------------ constructors
create_new_order(id, is_buy, price, volume) ==
  [order_id |-> id, is_buy |-> is_buy, price |-> price, volume |-> volume]

create_new_deal(volume, price, order_id_client, order_id_market) ==
  [volume |-> volume, price |-> price,
   order_id_client |-> order_id_client, order_id_market |-> order_id_market]

\* ------------------------------------------------------ submit_limit_order
\* limit_rejected with strict comparisons.
limit_rejected_strict(b, a, is_buy, price) ==
  \/ is_buy /\ Cardinality(DOMAIN b) > 0 /\ price < get_max_bid_price(b)
  \/ ~is_buy /\ Cardinality(DOMAIN a) > 0 /\ price > get_min_ask_price(a)

\* The two crossing checks.  len(self.bids) counts the price keys of the store.
limit_rejected(b, a, is_buy, price) ==
  \/ is_buy /\ Cardinality(DOMAIN b) > 0 /\ price <= get_max_bid_price(b)
  \/ ~is_buy /\ Cardinality(DOMAIN a) > 0 /\ price >= get_min_ask_price(a)

\* rest_order with appendleft in place of append.
rest_order_front(price_map, price, new_order) ==
  IF price \notin DOMAIN price_map
  THEN [p \in DOMAIN price_map \cup {price} |->
          IF p = price THEN <<new_order>> ELSE price_map[p]]
  ELSE [price_map EXCEPT ![price] = <<new_order>> \o @]

\* price_map[price] = deque([new_order]), or price_map[price].append(new_order).
rest_order(price_map, price, new_order) ==
  IF price \notin DOMAIN price_map
  THEN [p \in DOMAIN price_map \cup {price} |->
          IF p = price THEN <<new_order>> ELSE price_map[p]]
  ELSE [price_map EXCEPT ![price] = Append(@, new_order)]

\* limit_outcome with price_map = self.bids if is_buy else self.asks.
limit_outcome_swapped(b, a, lv, sv, id, is_buy, price, volume) ==
  IF limit_rejected(b, a, is_buy, price)
  THEN [result |-> "rejected", bids |-> b, asks |-> a,
        long_volume |-> lv, short_volume |-> sv]
  ELSE LET new_order == create_new_order(id, is_buy, price, volume)
       IN [result |-> "accepted",
           bids |-> IF is_buy THEN rest_order(b, price, new_order) ELSE b,
           asks |-> IF is_buy THEN a ELSE rest_order(a, price, new_order),
           long_volume |-> IF is_buy THEN lv + volume ELSE lv,
           short_volume |-> IF is_buy THEN sv ELSE sv + volume]

\* limit_outcome with the running total updated in front of the crossing checks.
limit_outcome_counts_first(b, a, lv, sv, id, is_buy, price, volume) ==
  LET lv2 == IF is_buy THEN lv + volume ELSE lv
      sv2 == IF is_buy THEN sv ELSE sv + volume
      new_order == create_new_order(id, is_buy, price, volume)
  IN IF limit_rejected(b, a, is_buy, price)
     THEN [result |-> "rejected", bids |-> b, asks |-> a,
           long_volume |-> lv2, short_volume |-> sv2]
     ELSE [result |-> "accepted",
           bids |-> IF is_buy THEN b ELSE rest_order(b, price, new_order),
           asks |-> IF is_buy THEN rest_order(a, price, new_order) ELSE a,
           long_volume |-> lv2, short_volume |-> sv2]

\* The whole call on the book (b, a, lv, sv); id is the fresh order_id.
limit_outcome(b, a, lv, sv, id, is_buy, price, volume) ==
  IF limit_rejected(b, a, is_buy, price)
  THEN [result |-> "rejected", bids |-> b, asks |-> a,
        long_volume |-> lv, short_volume |-> sv]
  ELSE LET new_order == create_new_order(id, is_buy, price, volume)
       IN [result |-> "accepted",
           bids |-> IF is_buy THEN b ELSE rest_order(b, price, new_order),
           asks |-> IF is_buy THEN rest_order(a, price, new_order) ELSE a,
           long_volume |-> IF is_buy THEN lv + volume ELSE lv,
           short_volume |-> IF is_buy THEN sv ELSE sv + volume]

\* ----------------------------------------------------- submit_market_order
\* The precondition checks in front of the matching loop.
market_rejected(lv, sv, is_buy, volume) ==
  \/ ~is_buy
  \/ is_buy /\ volume > sv
  \/ ~is_buy /\ volume > lv

\* fill_store with the partial fill applied to a copy of the head order.
fill_store_lost_update(b, price_level, order, filled_volume) ==
  IF filled_volume < order.volume
  THEN b
  ELSE [b EXCEPT ![price_level] = Tail(@)]

\* fill_store with pop in place of popleft.
fill_store_pop_right(b, price_level, order, filled_volume) ==
  IF filled_volume < order.volume
  THEN [b EXCEPT ![price_level] =
          [@ EXCEPT ![1] = [@ EXCEPT !.volume = @ - filled_volume]]]
  ELSE [b EXCEPT ![price_level] = SubSeq(@, 1, Len(@) - 1)]

\* fill_store with the partially filled order moved to the tail of its queue.
fill_store_rotate(b, price_level, order, filled_volume) ==
  IF filled_volume < order.volume
  THEN [b EXCEPT ![price_level] =
          Append(Tail(@), [@[1] EXCEPT !.volume = @ - filled_volume])]
  ELSE [b EXCEPT ![price_level] = Tail(@)]

\* The store after one match: the head order is decremented in place (partial
\* fill) or popped from the left (fully filled).  The key stays in the store.
fill_store(b, price_level, order, filled_volume) ==
  IF filled_volume < order.volume
  THEN [b EXCEPT ![price_level] =
          [@ EXCEPT ![1] = [@ EXCEPT !.volume = @ - filled_volume]]]
  ELSE [b EXCEPT ![price_level] = Tail(@)]

\* fill_short_volume with the partial fill left out of the running total.
fill_short_volume_stale(sv, order, filled_volume) ==
  IF filled_volume < order.volume
  THEN sv
  ELSE sv - order.volume

\* fill_short_volume with the whole order taken off the total on every match.
fill_short_volume_whole(sv, order, filled_volume) ==
  sv - order.volume

\* self._short_volume after one match.
fill_short_volume(sv, order, filled_volume) ==
  IF filled_volume < order.volume
  THEN sv - filled_volume
  ELSE sv - order.volume

RECURSIVE match_level(_, _, _, _, _, _)
RECURSIVE match_loop(_, _, _, _, _)

\* The inner loop: while len(self.bids[price_level]) > 0.
match_level(b, sv, volume, deals, id, price_level) ==
  IF ~(Len(b[price_level]) > 0)
  THEN match_loop(b, sv, volume, deals, id)
  ELSE LET order == b[price_level][1]
           filled_volume == Min(order.volume, volume)
           filling_order == create_new_order(id, TRUE, price_level, filled_volume)
           new_deal == create_new_deal(filled_volume, price_level,
                                       filling_order.order_id, order.order_id)
           deals2 == Append(deals, new_deal)
           volume2 == volume - filled_volume
           b2 == fill_store(b, price_level, order, filled_volume)
           sv2 == fill_short_volume(sv, order, filled_volume)
       IN IF volume2 = 0
          THEN [result |-> "filled", bids |-> b2, short_volume |-> sv2,
                deals |-> deals2, next_id |-> id + 1]
          ELSE match_level(b2, sv2, volume2, deals2, id + 1, price_level)

\* The outer loop: while True.  next(iter(self.bids)) raises StopIteration on a
\* store without keys.  When the deque of the first key is empty the inner loop
\* is skipped, nothing is changed and the next iteration is the same one: the
\* call never returns.
match_loop(b, sv, volume, deals, id) ==
  IF DOMAIN b = {}
  THEN [result |-> "raised", bids |-> b, short_volume |-> sv,
        deals |-> deals, next_id |-> id]
  ELSE LET price_level == get_max_bid_price(b)
       IN IF ~(Len(b[price_level]) > 0)
          THEN [result |-> "hung", bids |-> b, short_volume |-> sv,
                deals |-> deals, next_id |-> id]
          ELSE match_level(b, sv, volume, deals, id, price_level)

\* The whole call.
market_outcome(b, lv, sv, id, is_buy, volume) ==
  IF market_rejected(lv, sv, is_buy, volume)
  THEN [result |-> "rejected", bids |-> b, short_volume |-> sv,
        deals |-> << >>, next_id |-> id]
  ELSE match_loop(b, sv, volume, << >>, id)

\* ------------------------------------------------------------ the machine
NoCall == [op |-> "none", is_buy |-> FALSE, price |-> 0, volume |-> 0,
           result |-> "none", deals |-> << >>, order_id |-> 0]

Init ==
  /\ bids = EmptyStore
  /\ asks = EmptyStore
  /\ long_volume = get_total_long_volume(EmptyStore)
  /\ short_volume = get_total_short_volume(EmptyStore)
  /\ next_id = 1
  /\ last = NoCall
  /\ sum_limit = 0
  /\ sum_deals = 0
  /\ nops = 0
  /\ positive_only = TRUE

\* A call can be made when the previous one has ended (returned or raised).
Callable == nops < MaxOps /\ last.result # "hung"

\* One submit_limit_order call, its volume drawn from volumes.
LimitCall(volumes) ==
  /\ \E is_buy \in BOOLEAN, price \in Prices, volume \in volumes :
       LET out == limit_outcome(bids, asks, long_volume, short_volume,
                                next_id, is_buy, price, volume)
           ok == out.result = "accepted"
       IN /\ bids' = out.bids
          /\ asks' = out.asks
          /\ long_volume' = out.long_volume
          /\ short_volume' = out.short_volume
          /\ next_id' = IF ok THEN next_id + 1 ELSE next_id
          /\ sum_limit' = IF ok THEN sum_limit + volume ELSE sum_limit
          /\ last' = [op |-> "limit", is_buy |-> is_buy, price |-> price,
                      volume |-> volume, result |-> out.result, deals |-> << >>,
                      order_id |-> IF ok THEN next_id ELSE 0]
          /\ positive_only' = (positive_only /\ volume > 0)
  /\ nops' = nops + 1
  /\ UNCHANGED sum_deals

\* One submit_market_order call, its volume drawn from volumes.
MarketCall(volumes) ==
  /\ \E is_buy \in BOOLEAN, volume \in volumes :
       LET out == market_outcome(bids, long_volume, short_volume,
                                 next_id, is_buy, volume)
       IN /\ bids' = out.bids
          /\ short_volume' = out.short_volume
          /\ next_id' = out.next_id
          /\ sum_deals' = sum_deals + SumDealVolumes(out.deals)
          /\ last' = [op |-> "market", is_buy |-> is_buy, price |-> 0,
                      volume |-> volume, result |-> out.result,
                      deals |-> out.deals, order_id |-> 0]
          /\ positive_only' = (positive_only /\ volume > 0)
  /\ nops' = nops + 1
  /\ UNCHANGED <<asks, long_volume, sum_limit>>

SubmitLimitOrder == Callable /\ LimitCall(Volumes)

SubmitMarketOrder == Callable /\ MarketCall(Volumes)

Next == SubmitLimitOrder \/ SubmitMarketOrder

Spec == Init /\ [][Next]_vars

\* The same machine over one more call, every volume passed being positive.
CallableDeep == nops < MaxDeepOps /\ last.result # "hung"

SubmitLimitOrderDeep == CallableDeep /\ LimitCall(DeepVolumes)

SubmitMarketOrderDeep == CallableDeep /\ MarketCall(DeepVolumes)

NextDeep == SubmitLimitOrderDeep \/ SubmitMarketOrderDeep

SpecDeep == Init /\ [][NextDeep]_vars

\* ------------------------------------------------------------ vocabulary
\* The latest call returned to its caller.
Returned == last.result \in {"accepted", "rejected", "filled"}

\* The prices at which an order of the given side is queued, in either store.
RestingPrices(buy) ==
  {p \in Prices :
     \/ p \in DOMAIN bids /\ \E i \in 1..Len(bids[p]) : bids[p][i].is_buy = buy
     \/ p \in DOMAIN asks /\ \E i \in 1..Len(asks[p]) : asks[p][i].is_buy = buy}

BuyPrices == RestingPrices(TRUE)

SellPrices == RestingPrices(FALSE)

\* The lowest price of a resting sell order, the highest of a resting buy order.
BestSellPrice == CHOOSE p \in SellPrices : \A q \in SellPrices : p <= q

BestBuyPrice == CHOOSE p \in BuyPrices : \A q \in BuyPrices : p >= q

\* ------------------------------------------------------------------- C1
\* C1: after every submit_limit_order and submit_market_order call that
\* returns, each side's cached running total equals the recomputed sum of the
\* volumes queued on that side.
CachedTotalsAgree ==
  Returned =>
    /\ short_volume = get_total_short_volume(bids)
    /\ long_volume = get_total_long_volume(asks)

\* A market order returned after a full fill and a partial fill that leaves
\* volume resting on the consumed side.
CachedTotalsWitness ==
  /\ last.op = "market" /\ last.result = "filled"
  /\ Len(last.deals) = 2
  /\ short_volume > 0
  /\ short_volume = get_total_short_volume(bids)

\* ------------------------------------------------------------------- C2
\* C2: after every operation, if a buy order and a sell order are both
\* resting, the lowest resting sell price is strictly greater than the highest
\* resting buy price.  Stated for the calls that passed positive volumes only.
BookNeverCrossed ==
  (positive_only /\ Returned /\ BuyPrices # {} /\ SellPrices # {}) => BestSellPrice > BestBuyPrice

\* ------------------------------------------------------------------- C3
\* C3: a submit_market_order call that passes the precondition check
\* terminates with the requested volume fully filled.  Stated for the calls
\* that passed positive volumes only.
MarketOrderAlwaysFills ==
  (positive_only /\ last.op = "market" /\ last.result # "rejected") =>
    /\ last.result = "filled"
    /\ SumDealVolumes(last.deals) = last.volume

\* ------------------------------------------------------------------- C4
\* C4: a rejected submission leaves both stores and both running totals
\* exactly as they were before the call.
RejectionIsNoOp ==
  [][last'.result = "rejected" =>
       /\ bids' = bids
       /\ asks' = asks
       /\ long_volume' = long_volume
       /\ short_volume' = short_volume]_vars

\* A submission was rejected on a book with price levels on both sides.
RejectionWitness ==
  /\ last.result = "rejected"
  /\ DOMAIN bids # {}
  /\ DOMAIN asks # {}
  /\ long_volume + short_volume > 0

\* ------------------------------------------------------------------- C5
\* C5: after every mutating operation no price level with an empty queue
\* remains in either store.  Stated for the calls that passed positive volumes
\* only.
NoEmptyPriceLevel ==
  (positive_only /\ Returned) =>
    /\ \A p \in DOMAIN bids : Len(bids[p]) > 0
    /\ \A p \in DOMAIN asks : Len(asks[p]) > 0

\* ------------------------------------------------------------------- C6
\* A limit order that crosses the resting orders of the other side.
Crossing(is_buy, price) ==
  \/ is_buy /\ SellPrices # {} /\ price <= BestSellPrice
  \/ ~is_buy /\ BuyPrices # {} /\ price >= BestBuyPrice

\* C6: submit_limit_order rejects exactly the crossing orders: a buy limit iff
\* a sell order is resting and the price is at or below the best (lowest) sell
\* price, a sell limit iff a buy order is resting and the price is at or above
\* the best (highest) buy price; every other limit order is accepted.  Stated
\* for the calls that passed positive volumes only.
RejectsExactlyCrossing ==
  [][(positive_only' /\ last'.op = "limit") =>
       /\ last'.result \in {"accepted", "rejected"}
       /\ (last'.result = "rejected") <=> Crossing(last'.is_buy, last'.price)]_vars

\* ------------------------------------------------------------------- C7
\* C7: submit_market_order never raises: it returns a rejection exactly when the
\* taker side is the unsupported one or the requested volume exceeds the total
\* resting volume of the consumed side, and the deal ids in every other case.
\* Stated for a requested volume >= 0 on a book built with positive volumes.
MarketNeverRaises ==
  [][(positive_only /\ last'.volume >= 0 /\ last'.op = "market") =>
       /\ last'.result \in {"rejected", "filled"}
       /\ (last'.result = "rejected") <=>
            (~last'.is_buy \/ last'.volume > get_total_short_volume(bids))]_vars

\* ------------------------------------------------------------------- C8
\* Orders of one price are matched in the order of their submission.
TimePriority ==
  /\ \A i, j \in 1..Len(last.deals) :
       (i < j /\ last.deals[i].price = last.deals[j].price) =>
          last.deals[i].order_id_market <= last.deals[j].order_id_market
  /\ \A i \in 1..Len(last.deals) :
       LET pl == last.deals[i].price
       IN \A k \in 1..Len(bids[pl]) :
            bids[pl][k].order_id >= last.deals[i].order_id_market

\* No deal is made at a price while a sell order rests at a lower one.
PricePriority ==
  /\ \A i, j \in 1..Len(last.deals) :
       i < j => last.deals[i].price <= last.deals[j].price
  /\ \A i \in 1..Len(last.deals) :
       \A p \in SellPrices : last.deals[i].price <= p

\* C8: the deals of one market order match resting orders of one price in the
\* order they were submitted, and resting orders of different prices strictly
\* best-price-first, the best price of the sell side being its lowest.  Stated
\* for the calls that passed positive volumes only.
PriceTimePriority ==
  (positive_only /\ last.op = "market" /\ last.result = "filled") =>
    (TimePriority /\ PricePriority)

\* ------------------------------------------------------------------- C9
\* C9 as stated: the two recomputed totals add up to the accepted limit volumes
\* minus twice the deal volumes.  Stated for the calls that passed positive
\* volumes only.
ConservationMinusTwice ==
  (positive_only /\ Returned) =>
    get_total_long_volume(asks) + get_total_short_volume(bids)
      = sum_limit - 2 * sum_deals

\* C9 as amended: the two recomputed totals add up to the accepted limit
\* volumes minus, once, the deal volumes.
VolumeConservation ==
  get_total_long_volume(asks) + get_total_short_volume(bids)
    = sum_limit - sum_deals

\* Limit orders on both sides, then a market order that ends in a partial fill.
ConservationWitness ==
  /\ last.op = "market" /\ last.result = "filled"
  /\ sum_deals > 0
  /\ get_total_long_volume(asks) > 0
  /\ get_total_short_volume(bids) > 0

\* ------------------------------------------------------------------ C10
\* C10: after every mutating operation every queued order has strictly
\* positive remaining volume, whatever integer volumes the callers pass.
QueuedVolumesPositive ==
  Returned =>
    /\ \A p \in DOMAIN bids : \A i \in 1..Len(bids[p]) : bids[p][i].volume > 0
    /\ \A p \in DOMAIN asks : \A i \in 1..Len(asks[p]) : asks[p][i].volume > 0

\* ------------------------------------------------------- more vocabulary
\* The orders queued in a store.
OrdersOf(store) ==
  UNION {{store[p][i] : i \in 1..Len(store[p])} : p \in DOMAIN store}

\* The order ids queued in a store.
IdsOf(store) == {o.order_id : o \in OrdersOf(store)}

\* The order ids a sequence of deals matched on the market side.
MatchedIds(ds) == {ds[i].order_id_market : i \in 1..Len(ds)}

\* ------------------------------------------------------------------ C11
\* C11: every Deal created by submit_market_order has volume > 0, for every
\* requested volume that passes the precondition check.  Stated for a
\* requested volume >= 0 on a book built with positive volumes.
DealVolumesPositive ==
  [][(positive_only /\ last'.volume >= 0 /\ last'.op = "market") =>
       \A i \in 1..Len(last'.deals) : last'.deals[i].volume > 0]_vars

\* ------------------------------------------------------------------ C12
\* The only order resting in bids has volume V at price P and the call made is
\* a buy market order for f with 0 < f < V.
PartialFillCase(P, V, f) ==
  /\ get_short_num_ords(bids) = 1
  /\ P \in DOMAIN bids /\ Len(bids[P]) = 1 /\ bids[P][1].volume = V
  /\ last'.op = "market" /\ last'.is_buy /\ last'.volume = f
  /\ 0 < f /\ f < V

\* C12: when the only order resting on the consumed side has volume V at price
\* P, a market order for f with 0 < f < V produces exactly one Deal, of volume f
\* at price P, leaves exactly one order resting, at price P with volume V - f,
\* and leaves the consumed side's total at V - f.
PartialFillCorrect ==
  [][\A P \in Prices, V \in DeepVolumes, f \in DeepVolumes :
       PartialFillCase(P, V, f) =>
         /\ last'.result = "filled"
         /\ Len(last'.deals) = 1
         /\ last'.deals[1].volume = f /\ last'.deals[1].price = P
         /\ get_short_num_ords(bids') = 1
         /\ Len(bids'[P]) = 1 /\ bids'[P][1].volume = V - f
         /\ get_total_short_volume(bids') = V - f
         /\ short_volume' = V - f]_vars

\* ------------------------------------------------------------------ C13
\* C13: a market order whose requested volume equals the total resting volume
\* of the consumed side empties that side: its total becomes 0, no price level
\* remains in its store and the deal volumes sum to the requested volume.
\* Stated for the calls that passed positive volumes only.
FullConsumption ==
  [][(positive_only' /\ last'.op = "market" /\ last'.is_buy
        /\ last'.volume = get_total_short_volume(bids)) =>
       /\ last'.result = "filled"
       /\ get_total_short_volume(bids') = 0
       /\ short_volume' = 0
       /\ DOMAIN bids' = {}
       /\ SumDealVolumes(last'.deals) = last'.volume]_vars

\* ------------------------------------------------------------------ C14
\* C14: an accepted submit_limit_order appends exactly one new order at the
\* tail of the queue at its price in its side's store (asks for a buy, bids for
\* a sell), creating the level if absent, adds exactly its volume to that
\* side's running total, and leaves the other store, the other total and every
\* order already queued as they were.
AcceptedLimitFrame ==
  [][(last'.op = "limit" /\ last'.result = "accepted") =>
       LET is_buy == last'.is_buy
           price == last'.price
           own == IF is_buy THEN asks ELSE bids
           own2 == IF is_buy THEN asks' ELSE bids'
           old == IF price \in DOMAIN own THEN own[price] ELSE << >>
           new_order == [order_id |-> last'.order_id, is_buy |-> is_buy,
                         price |-> price, volume |-> last'.volume]
       IN /\ last'.order_id \notin (IdsOf(bids) \cup IdsOf(asks))
          /\ DOMAIN own2 = DOMAIN own \cup {price}
          /\ own2[price] = Append(old, new_order)
          /\ \A p \in DOMAIN own \ {price} : own2[p] = own[p]
          /\ IF is_buy
             THEN /\ long_volume' = long_volume + last'.volume
                  /\ bids' = bids /\ short_volume' = short_volume
             ELSE /\ short_volume' = short_volume + last'.volume
                  /\ asks' = asks /\ long_volume' = long_volume]_vars

\* A buy limit order was queued behind another one, with a level in bids.
AcceptedLimitWitness ==
  /\ last.op = "limit" /\ last.result = "accepted" /\ last.is_buy
  /\ Len(asks[last.price]) = 2
  /\ asks[last.price][2].order_id = last.order_id
  /\ DOMAIN bids # {}

\* ------------------------------------------------------------------ C15
\* C15: for every successful submit_market_order with requested volume v, the
\* volumes of its deals sum to exactly v and the consumed side's running total
\* after the call is its value before the call minus v.
MarketFillsExactly ==
  [][(last'.op = "market" /\ last'.result = "filled") =>
       /\ SumDealVolumes(last'.deals) = last'.volume
       /\ short_volume' = short_volume - last'.volume
       /\ get_total_short_volume(bids') =
            get_total_short_volume(bids) - last'.volume]_vars

\* A market order for 2 returned after two deals that emptied the side.
MarketFillsWitness ==
  /\ last.op = "market" /\ last.result = "filled"
  /\ last.volume = 2
  /\ Len(last.deals) = 2
  /\ short_volume = 0

\* ------------------------------------------------------------------ C16
\* The orders of a queue that no deal of ds matched, in their order.
Unmatched(q, ds) ==
  SelectSeq(q, LAMBDA o : o.order_id \notin MatchedIds(ds))

\* The volume the deals of ds took from the order id.
DealtVolume(ds, id) ==
  SumDealVolumes(SelectSeq(ds, LAMBDA d : d.order_id_market = id))

\* C16: a market order changes only the orders it matches: asks and its total
\* are unchanged, every order of bids that appears in no deal keeps its volume
\* and its place among the orders of its queue, and a matched order that is
\* still queued is at the head of its queue with its volume reduced by exactly
\* the filled amount.
MarketFrame ==
  [][last'.op = "market" =>
       /\ asks' = asks
       /\ long_volume' = long_volume
       /\ DOMAIN bids' = DOMAIN bids
       /\ \A p \in DOMAIN bids :
            /\ Unmatched(bids'[p], last'.deals) = Unmatched(bids[p], last'.deals)
            /\ \A k \in 1..Len(bids'[p]) :
                 bids'[p][k].order_id \in MatchedIds(last'.deals) =>
                   /\ k = 1
                   /\ \E j \in 1..Len(bids[p]) :
                        bids'[p][1] =
                          [bids[p][j] EXCEPT !.volume =
                             @ - DealtVolume(last'.deals, bids[p][j].order_id)]]_vars

\* A market order partially filled the head of a queue of two orders.
MarketFrameWitness ==
  /\ last.op = "market" /\ last.result = "filled"
  /\ \E p \in DOMAIN bids :
       /\ Len(bids[p]) = 2
       /\ bids[p][1].order_id \in MatchedIds(last.deals)
       /\ bids[p][2].order_id \notin MatchedIds(last.deals)

\* ------------------------------------------------------------------ C17
\* C17: from the moment a limit order is accepted its remaining volume never
\* increases, it leaves the book only by being fully filled by a market order,
\* and an order that left never re-enters a queue.  Stated for a book built
\* with positive volumes.
OrderLifecycle ==
  [][positive_only =>
       /\ \A o \in OrdersOf(bids) \cup OrdersOf(asks) :
            LET after == {n \in OrdersOf(bids') \cup OrdersOf(asks') :
                            n.order_id = o.order_id}
            IN IF after # {}
               THEN \A n \in after : n.volume <= o.volume
               ELSE /\ last'.op = "market"
                    /\ DealtVolume(last'.deals, o.order_id) = o.volume
       /\ \A id \in (IdsOf(bids') \cup IdsOf(asks')) \ (IdsOf(bids) \cup IdsOf(asks)) :
            id >= next_id]_vars

\* ------------------------------------------------------------------ C18
\* C18: every accepted buy limit order is queued in asks and counted in
\* _long_volume, every accepted sell limit order is queued in bids and counted
\* in _short_volume, and a buy market order matches only orders of bids: asks
\* holds only buy orders and bids holds only sell orders.
SideMapping ==
  /\ \A o \in OrdersOf(asks) : o.is_buy
  /\ \A o \in OrdersOf(bids) : ~o.is_buy
  /\ Returned =>
       /\ long_volume = get_total_long_volume(asks)
       /\ short_volume = get_total_short_volume(bids)
  /\ (last.op = "limit" /\ last.result = "accepted") =>
       LET own == IF last.is_buy THEN asks ELSE bids
           other == IF last.is_buy THEN bids ELSE asks
       IN /\ last.price \in DOMAIN own
          /\ Len(own[last.price]) > 0
          /\ own[last.price][Len(own[last.price])].order_id = last.order_id
          /\ last.order_id \notin IdsOf(other)
  /\ last.op = "market" =>
       /\ MatchedIds(last.deals) \cap IdsOf(asks) = {}
       /\ \A i \in 1..Len(last.deals) : last.deals[i].price \in DOMAIN bids

\* A buy market order matched a sell order of bids while a buy order rests
\* in asks.
SideMappingWitness ==
  /\ last.op = "market" /\ last.result = "filled"
  /\ Len(last.deals) > 0
  /\ OrdersOf(asks) # {}
  /\ long_volume > 0

\* ------------------------------------------------------------------ C19
\* C19: after any sequence of calls that return, every price key of asks is
\* strictly greater than every price key of bids, keys with an empty queue
\* included, so the no-cross assertion of validate() holds.
KeysNeverCross ==
  Returned =>
    /\ \A pa \in DOMAIN asks : \A pb \in DOMAIN bids : pa > pb
    /\ validate_no_cross(bids, asks)

\* asks has a key while bids has a key whose queue was emptied.
KeysNeverCrossWitness ==
  /\ Returned
  /\ DOMAIN asks # {}
  /\ \E pb \in DOMAIN bids : Len(bids[pb]) = 0

\* ------------------------------------------------------------------ C20
\* C20: within one successful market order with positive requested volume,
\* every matched resting order except the last one matched is fully filled and
\* removed from its queue; only the order of the last deal can be partially
\* filled and stay queued.
OnePartialFillAtMost ==
  [][(last'.op = "market" /\ last'.result = "filled" /\ last'.volume > 0) =>
       LET ds == last'.deals
           n == Len(ds)
       IN /\ n >= 1
          /\ \A i, j \in 1..n :
               i # j => ds[i].order_id_market # ds[j].order_id_market
          /\ \A i \in 1..(n - 1) :
               /\ \E o \in OrdersOf(bids) :
                    o.order_id = ds[i].order_id_market /\ o.volume = ds[i].volume
               /\ ds[i].order_id_market \notin IdsOf(bids')
          /\ \A o \in OrdersOf(bids') :
               o.order_id \in MatchedIds(ds) => o.order_id = ds[n].order_id_market]_vars

\* Two deals, the first a full fill, the last a partial fill of an order that
\* stays queued.
OnePartialFillWitness ==
  /\ last.op = "market" /\ last.result = "filled" /\ last.volume > 0
  /\ Len(last.deals) = 2
  /\ last.deals[1].order_id_market \notin IdsOf(bids)
  /\ last.deals[2].order_id_market \in IdsOf(bids)

====
